---- MODULE Spec2Model ----
(***************************************************************************)
(* Model of the PPTX skill's two scripts:                                  *)
(*   sync_to_twenty.py  sync_community_to_twenty and the TwentyCRM client  *)
(*   pptx_parser.py     extract_presentation and parse_community_data      *)
(* Each function is a sequential program; its position is a pc variable    *)
(* and every external request is one step with a nondeterministic reply.   *)
(***************************************************************************)
EXTENDS Integers, Sequences, FiniteSets, TLC

\* ------------------------------------------------------------------ bounds
\* longest contacts list of a synced profile
MaxContacts == 2
\* most requests the CRM fails during one sync
MaxFailures == 2

\* ------------------------------------------------------------ shared values
\* Python's None, and a .get() of an absent key
None == "None"

Min(a, b) == IF a < b THEN a ELSE b

Take(s, k) == SubSeq(s, 1, Min(k, Len(s)))

RECURSIVE SeqsUpTo(_, _)
\* all sequences over S of length 0..k
SeqsUpTo(S, k) ==
    IF k = 0 THEN {<<>>}
    ELSE LET shorter == SeqsUpTo(S, k - 1)
         IN  shorter \cup {Append(s, x) : s \in {t \in shorter : Len(t) = k - 1}, x \in S}

VARIABLES
    \* sync_community_to_twenty
    pc,               \* position in sync_community_to_twenty
    community_data,   \* the profile handed to the sync
    dry_run,          \* the dry-run flag
    results,          \* the results record under construction
    existing,         \* reply of search_companies
    company_id,       \* id obtained by organization resolution
    ci,               \* index of the contacts loop
    notes_to_create,  \* (title, body) pairs built before the notes loop
    ni,               \* index of the notes loop
    outcome,          \* "running", "returned" (results is the value) or "raised"
    calls,            \* requests the CRM client has been sent, in order
    failures,         \* requests that have failed so far
    \* extract_presentation
    xpc,              \* position in extract_presentation
    slide_range,      \* the --slides string, a sequence of characters, or NoRange
    prs,              \* the opened presentation's slides
    parts,            \* parts of slide_range.split(",") not parsed yet
    selected_slides,  \* None, or the set built from the parts
    xi,               \* enumerate(prs.slides, 1) index
    slides,           \* slide records extracted so far
    xoutcome,         \* "running", "returned" or "ValueError"
    \* parse_community_data
    ppc,              \* position in parse_community_data
    data,             \* the extracted presentation handed to the parser
    community,        \* the profile under construction
    all_text,         \* text of the slides seen so far
    pi                \* index of the slides loop

syncVars == <<pc, community_data, dry_run, results, existing, company_id, ci,
              notes_to_create, ni, outcome, calls, failures>>

extractVars == <<xpc, slide_range, prs, parts, selected_slides, xi, slides, xoutcome>>

parseVars == <<ppc, data, community, all_text, pi>>

vars == <<syncVars, extractVars, parseVars>>

\* an Optional value: Python's None, or a value
Nothing(empty) == [none |-> TRUE, val |-> empty]
Some(v) == [none |-> FALSE, val |-> v]

\* the variables of a function that is not running
SyncIdle ==
    /\ pc = "idle"
    /\ community_data = <<>>
    /\ dry_run = FALSE
    /\ results = <<>>
    /\ existing = <<>>
    /\ company_id = None
    /\ ci = 1
    /\ notes_to_create = <<>>
    /\ ni = 1
    /\ outcome = "idle"
    /\ calls = <<>>
    /\ failures = 0

ExtractIdle ==
    /\ xpc = "idle"
    /\ slide_range = Nothing(<<>>)
    /\ prs = <<>>
    /\ parts = <<>>
    /\ selected_slides = Nothing({})
    /\ xi = 1
    /\ slides = <<>>
    /\ xoutcome = "idle"

ParseIdle ==
    /\ ppc = "idle"
    /\ data = <<>>
    /\ community = <<>>
    /\ all_text = <<>>
    /\ pi = 1

\* ====================================================================
\* sync_to_twenty.py
\* ====================================================================
\* what a sync step leaves alone
notSync == <<extractVars, parseVars>>

\* ids the CRM hands out
CompanyIds == {"c1", "c2"}

\* the company records the CRM holds that a search by name can return (the
\* filter of line 44 is name like %name%): the fields are those company_data
\* writes, and the id, which may be absent from a reply
CompanyReplies ==
    { [id |-> "c1", name |-> "Oak Hill Village", address |-> "1 Old Rd",
       domainName |-> ""],
      [id |-> "c2", name |-> "Oak Hill Village East", address |-> "1 Old Rd",
       domainName |-> "oakhill.org"],
      [id |-> None, name |-> "Oak Hill Village", address |-> "1 Old Rd",
       domainName |-> "oakhill.org"] }

\* replies of search_companies: no match, one match, two matches
SearchCompanyReplies ==
    {<<>>} \cup {<<c>> : c \in CompanyReplies}
           \cup {s \in [1 .. 2 -> CompanyReplies] :
                    <<s[1].id, s[2].id>> \in {<<"c1", "c2">>, <<None, "c1">>}}

ContactPool ==
    { [email |-> "a@x.co", name |-> "Jane Smith", title |-> "CEO"],
      [email |-> "", name |-> "John Doe", title |-> ""] }

\* a section of the profile: empty, or holding items
SectionPool(item) == {<<>>, <<item>>}

DevelopmentPool ==
    { [objectives |-> <<>>, vulnerabilities |-> <<>>, opportunities |-> <<>>],
      [objectives |-> <<"obj1", "obj2", "obj3">>, vulnerabilities |-> <<>>,
       opportunities |-> <<>>],
      [objectives |-> <<"obj1">>, vulnerabilities |-> <<"vul1">>,
       opportunities |-> <<"opp1">>] }

Profiles ==
    [ name : {"Oak Hill Village"},
      address : {"12 Oak Rd, Salem, MA 01970"},
      contacts : SeqsUpTo(ContactPool, MaxContacts),
      one_point_team : SectionPool([name |-> "Bob", role |-> "Lead"]),
      goals : SectionPool("Grow occupancy"),
      market_analysis : [demand_summary : SectionPool("Demand is strong in the area")],
      development : DevelopmentPool,
      presentations : SectionPool([date |-> "Jan 5, 2024", slide |-> 2]),
      next_steps : SectionPool("Schedule the site visit") ]

\* results["company"] before organization resolution has set it: Python's None
NoCompany == [id |-> None, action |-> None]

\* results = {...}  (lines 102-108)
EmptyResults ==
    [ company |-> NoCompany,
      contacts_created |-> <<>>,
      contacts_updated |-> <<>>,
      notes_created |-> <<>>,
      errors |-> <<>> ]

\* community_name = community_data.get("name", "Unknown Community")
community_name == community_data.name

\* company_data = {...}  (lines 121-125)
company_data ==
    [ name |-> community_name,
      address |-> community_data.address,
      domainName |-> "" ]

\* lines 57-60: PATCH companies/{company_id} with data; the record the CRM
\* holds afterwards has the fields the body names set to the body's values
Patched(record, json) ==
    [f \in DOMAIN record |-> IF f \in DOMAIN json THEN json[f] ELSE record[f]]

\* one request through TwentyCRM._request, logged with how it ended:
\* ok is FALSE when the reply's status was >= 400 and _request raised
Request(op, key, json, ok) ==
    calls' = Append(calls, [op |-> op, key |-> key, data |-> json, ok |-> ok])

\* a request without a JSON body (the GET searches)
NoData == [none |-> None]

\* TwentyCRM._request raising on a status >= 400; the model caps how often
CanFail == failures < MaxFailures

SyncInit ==
    /\ pc = "start"
    /\ community_data \in Profiles
    /\ dry_run \in BOOLEAN
    /\ results = EmptyResults
    /\ existing = <<>>
    /\ company_id = None
    /\ ci = 1
    /\ notes_to_create = <<>>
    /\ ni = 1
    /\ outcome = "running"
    /\ calls = <<>>
    /\ failures = 0
    /\ ExtractIdle
    /\ ParseIdle

\* Start without the dry-run test of line 112
StartIgnoringDryRun ==
    /\ pc = "start"
    /\ pc' = "search_companies"
    /\ UNCHANGED <<community_data, dry_run, results, existing, company_id, ci,
                   notes_to_create, ni, outcome, calls, failures>>
    /\ UNCHANGED notSync

\* lines 102-115: build the skeleton; a dry run returns it at once
Start ==
    /\ pc = "start"
    /\ IF dry_run
       THEN /\ pc' = "done"
            /\ outcome' = "returned"
       ELSE /\ pc' = "search_companies"
            /\ UNCHANGED outcome
    /\ UNCHANGED <<community_data, dry_run, results, existing, company_id, ci,
                   notes_to_create, ni, calls, failures>>
    /\ UNCHANGED notSync

\* the exception of a failed request leaves sync_community_to_twenty
Raise ==
    /\ pc' = "done"
    /\ outcome' = "raised"
    /\ failures' = failures + 1

\* line 119: existing = crm.search_companies(community_name)
SearchCompanies ==
    /\ pc = "search_companies"
    /\ \/ /\ CanFail
          /\ Request("search_companies", community_name, NoData, FALSE)
          /\ Raise
          /\ UNCHANGED existing
       \/ /\ Request("search_companies", community_name, NoData, TRUE)
          /\ existing' \in SearchCompanyReplies
          /\ pc' = "write_company"
          /\ UNCHANGED <<outcome, failures>>
    /\ UNCHANGED <<community_data, dry_run, results, company_id, ci,
                   notes_to_create, ni>>
    /\ UNCHANGED notSync

\* lines 138-140: no id, no further step
AfterCompany(id, res) ==
    IF id = None
    THEN /\ results' = [res EXCEPT !.errors = Append(@, "Failed to create/find company")]
         /\ pc' = "done"
         /\ outcome' = "returned"
    ELSE /\ results' = res
         /\ pc' = "contacts"
         /\ UNCHANGED outcome

\* UpdateCompany taking the last match (existing[-1]) instead of the first
UpdateCompanyLastMatch ==
    /\ pc = "write_company"
    /\ existing # <<>>
    /\ company_id' = existing[Len(existing)].id
    /\ \/ /\ CanFail
          /\ Request("update_company", existing[Len(existing)].id, company_data, FALSE)
          /\ Raise
          /\ UNCHANGED results
       \/ /\ Request("update_company", existing[Len(existing)].id, company_data, TRUE)
          /\ AfterCompany(existing[Len(existing)].id,
                [results EXCEPT !.company =
                    [id |-> existing[Len(existing)].id, action |-> "updated"]])
          /\ UNCHANGED failures
    /\ UNCHANGED <<community_data, dry_run, existing, ci, notes_to_create, ni>>
    /\ UNCHANGED notSync

\* lines 127-131: a match, update the first one
UpdateCompany ==
    /\ pc = "write_company"
    /\ existing # <<>>
    /\ company_id' = existing[1].id
    /\ \/ /\ CanFail
          /\ Request("update_company", existing[1].id, company_data, FALSE)
          /\ Raise
          /\ UNCHANGED results
       \/ /\ Request("update_company", existing[1].id, company_data, TRUE)
          /\ AfterCompany(existing[1].id,
                [results EXCEPT !.company = [id |-> existing[1].id, action |-> "updated"]])
          /\ UNCHANGED failures
    /\ UNCHANGED <<community_data, dry_run, existing, ci, notes_to_create, ni>>
    /\ UNCHANGED notSync

\* lines 132-136: no match, create
CreateCompany ==
    /\ pc = "write_company"
    /\ existing = <<>>
    /\ \/ /\ CanFail
          /\ Request("create_company", None, company_data, FALSE)
          /\ Raise
          /\ UNCHANGED <<results, company_id>>
       \/ \E id \in CompanyIds \cup {None} :
            /\ Request("create_company", None, company_data, TRUE)
            /\ company_id' = id
            /\ AfterCompany(id,
                 [results EXCEPT !.company = [id |-> id, action |-> "created"]])
            /\ UNCHANGED failures
    /\ UNCHANGED <<community_data, dry_run, existing, ci, notes_to_create, ni>>
    /\ UNCHANGED notSync

\* lines 148-149: a contact without an email is passed over
SkipContact ==
    /\ pc = "contacts"
    /\ ci <= Len(community_data.contacts)
    /\ community_data.contacts[ci].email = ""
    /\ ci' = ci + 1
    /\ UNCHANGED <<pc, community_data, dry_run, results, existing, company_id,
                   notes_to_create, ni, outcome, calls, failures>>
    /\ UNCHANGED notSync

\* lines 152-163: existing_people = crm.search_people(email=email), outside any try
SearchPeople ==
    /\ pc = "contacts"
    /\ ci <= Len(community_data.contacts)
    /\ LET contact == community_data.contacts[ci] IN
       /\ contact.email # ""
       /\ \/ /\ CanFail
             /\ Request("search_people", contact.email, NoData, FALSE)
             /\ Raise
             /\ UNCHANGED <<results, ci>>
          \/ \E found \in BOOLEAN :
               /\ Request("search_people", contact.email, NoData, TRUE)
               /\ IF found
                  THEN /\ results' = [results EXCEPT !.contacts_updated =
                             Append(@, [email |-> contact.email, name |-> contact.name])]
                       /\ ci' = ci + 1
                       /\ UNCHANGED <<pc, outcome, failures>>
                  ELSE /\ pc' = "create_person"
                       /\ UNCHANGED <<results, ci, outcome, failures>>
    /\ UNCHANGED <<community_data, dry_run, existing, company_id, notes_to_create, ni>>
    /\ UNCHANGED notSync

\* person_data without the link to the organization
PersonDataUnlinked(contact) ==
    [ email |-> contact.email,
      name |-> contact.name,
      jobTitle |-> contact.title,
      companyId |-> None ]

\* person_data = {...}  (lines 154-159)
person_data(contact) ==
    [ email |-> contact.email,
      name |-> contact.name,
      jobTitle |-> contact.title,
      companyId |-> company_id ]

\* lines 164-170: crm.create_person(person_data) inside try/except
CreatePerson ==
    /\ pc = "create_person"
    /\ LET contact == community_data.contacts[ci] IN
       /\ \/ /\ CanFail
             /\ Request("create_person", contact.email, person_data(contact), FALSE)
             /\ failures' = failures + 1
             /\ results' = [results EXCEPT !.errors =
                   Append(@, "Failed to create " \o contact.email)]
          \/ /\ Request("create_person", contact.email, person_data(contact), TRUE)
             /\ results' = [results EXCEPT !.contacts_created =
                   Append(@, [email |-> contact.email, name |-> contact.name])]
             /\ UNCHANGED failures
    /\ ci' = ci + 1
    /\ pc' = "contacts"
    /\ UNCHANGED <<community_data, dry_run, existing, company_id, notes_to_create,
                   ni, outcome>>
    /\ UNCHANGED notSync

\* demand[:5]  (line 193)
DemandLimit == 5
\* dev[...][:2]  (lines 200-204)
DevLimit == 2

\* lines 196-207: the development note's parts, in the order the code appends them
DevParts(dev) ==
    (IF dev.vulnerabilities # <<>>
     THEN <<[heading |-> "Vulnerabilities", lines |-> Take(dev.vulnerabilities, DevLimit)]>>
     ELSE <<>>)
    \o (IF dev.opportunities # <<>>
        THEN <<[heading |-> "Opportunities", lines |-> Take(dev.opportunities, DevLimit)]>>
        ELSE <<>>)
    \o (IF dev.objectives # <<>>
        THEN <<[heading |-> "Objectives", lines |-> Take(dev.objectives, DevLimit)]>>
        ELSE <<>>)

Note(title, heading, lines) ==
    <<[title |-> title, body |-> [heading |-> heading, lines |-> lines]]>>

\* lines 173-221: one (title, body) pair per non-empty section, in source order
NotesFor(cd) ==
    (IF cd.one_point_team # <<>>
     THEN Note("One Point Team", "One Point Team", cd.one_point_team) ELSE <<>>)
    \o (IF cd.goals # <<>>
        THEN Note("Client Goals", "Client Goals", cd.goals) ELSE <<>>)
    \o (IF cd.market_analysis.demand_summary # <<>>
        THEN Note("Market Analysis Summary", "Market Analysis",
                  Take(cd.market_analysis.demand_summary, DemandLimit))
        ELSE <<>>)
    \o (IF DevParts(cd.development) # <<>>
        THEN Note("Development Analysis", "Development Analysis", DevParts(cd.development))
        ELSE <<>>)
    \o (IF cd.presentations # <<>>
        THEN Note("Presentations Log", "Presentations Log", cd.presentations) ELSE <<>>)
    \o (IF cd.next_steps # <<>>
        THEN Note("Next Steps", "Next Steps", cd.next_steps) ELSE <<>>)

\* lines 172-221: the contacts loop is over; build notes_to_create
BuildNotes ==
    /\ pc = "contacts"
    /\ ci > Len(community_data.contacts)
    /\ notes_to_create' = NotesFor(community_data)
    /\ pc' = "notes"
    /\ UNCHANGED <<community_data, dry_run, results, existing, company_id, ci, ni,
                   outcome, calls, failures>>
    /\ UNCHANGED notSync

\* lines 79-87 and 225: the note's body and the target it is attached to
note_data(note) ==
    [ body |-> [community |-> community_name, note |-> note.body],
      targetObjectNameSingular |-> "company",
      targetObjectRecordId |-> company_id ]

\* CreateNote without the try of lines 226-231: a failed request raises
CreateNoteRaising ==
    /\ pc = "notes"
    /\ ni <= Len(notes_to_create)
    /\ LET note == notes_to_create[ni] IN
       \/ /\ CanFail
          /\ Request("create_note", note.title, note_data(note), FALSE)
          /\ Raise
          /\ UNCHANGED <<results, ni>>
       \/ /\ Request("create_note", note.title, note_data(note), TRUE)
          /\ results' = [results EXCEPT !.notes_created = Append(@, note.title)]
          /\ ni' = ni + 1
          /\ UNCHANGED <<pc, outcome, failures>>
    /\ UNCHANGED <<community_data, dry_run, existing, company_id, ci, notes_to_create>>
    /\ UNCHANGED notSync

\* lines 224-231: crm.create_note(full_body, target_id=company_id, target_type="company")
CreateNote ==
    /\ pc = "notes"
    /\ ni <= Len(notes_to_create)
    /\ LET note == notes_to_create[ni] IN
       /\ \/ /\ CanFail
             /\ Request("create_note", note.title, note_data(note), FALSE)
             /\ failures' = failures + 1
             /\ results' = [results EXCEPT !.errors =
                   Append(@, "Failed to create note '" \o note.title \o "'")]
          \/ /\ Request("create_note", note.title, note_data(note), TRUE)
             /\ results' = [results EXCEPT !.notes_created = Append(@, note.title)]
             /\ UNCHANGED failures
    /\ ni' = ni + 1
    /\ UNCHANGED <<pc, community_data, dry_run, existing, company_id, ci,
                   notes_to_create, outcome>>
    /\ UNCHANGED notSync

\* line 233: return results
Return ==
    /\ pc = "notes"
    /\ ni > Len(notes_to_create)
    /\ pc' = "done"
    /\ outcome' = "returned"
    /\ UNCHANGED <<community_data, dry_run, results, existing, company_id, ci,
                   notes_to_create, ni, calls, failures>>
    /\ UNCHANGED notSync

SyncNext ==
    \/ Start
    \/ SearchCompanies
    \/ UpdateCompany
    \/ CreateCompany
    \/ SkipContact
    \/ SearchPeople
    \/ CreatePerson
    \/ BuildNotes
    \/ CreateNote
    \/ Return

SpecSync == SyncInit /\ [][SyncNext]_vars

\* --------------------------------------------------------------------
\* Properties of sync_community_to_twenty
\* --------------------------------------------------------------------
OrgOps == {"search_companies", "create_company", "update_company"}
PersonOps == {"search_people", "create_person"}
NoteOps == {"create_note"}

Count(ops) == Cardinality({k \in DOMAIN calls : calls[k].op \in ops})

Failed(ops) == {k \in DOMAIN calls : calls[k].op \in ops /\ ~calls[k].ok}

\* C1: a dry run sends the CRM no request at all and returns the empty
\* results skeleton (no company, nothing created, updated or failed).
C1_DryRunNoCalls ==
    dry_run =>
        /\ calls = <<>>
        /\ results = EmptyResults
        /\ pc = "done" => outcome = "returned"

C1_Witness == dry_run /\ pc = "done" /\ outcome = "returned" /\ results = EmptyResults

\* C2 as stated: every non-dry-run sync issues exactly one company search and
\* then exactly one write, a create recorded as "created" when nothing matched,
\* an update of the first match recorded as "updated" otherwise.
C2_Original ==
    (~dry_run /\ pc \notin {"start", "search_companies", "write_company"}) =>
        /\ Count({"search_companies"}) = 1
        /\ Count({"create_company", "update_company"}) = 1
        /\ calls[1].op = "search_companies"
        /\ IF existing = <<>>
           THEN /\ calls[2].op = "create_company"
                /\ results.company.action = "created"
           ELSE /\ calls[2].op = "update_company"
                /\ calls[2].key = existing[1].id
                /\ results.company = [id |-> existing[1].id, action |-> "updated"]

\* C2 amended: a non-dry-run sync issues exactly one company search; when that
\* request succeeds exactly one write follows it, a create if nothing matched
\* and an update of the first match's id otherwise; and when the write request
\* succeeds its action is recorded ("created", or "updated" with that id).
C2_OneSearchOneWrite ==
    (~dry_run /\ pc \notin {"start", "search_companies"}) =>
        /\ Count({"search_companies"}) = 1
        /\ calls[1].op = "search_companies"
        /\ ~calls[1].ok => Count({"create_company", "update_company"}) = 0
        /\ (calls[1].ok /\ pc # "write_company") =>
              /\ Count({"create_company", "update_company"}) = 1
              /\ IF existing = <<>>
                 THEN /\ calls[2].op = "create_company"
                      /\ calls[2].ok =>
                            results.company = [id |-> company_id, action |-> "created"]
                 ELSE /\ calls[2].op = "update_company"
                      /\ calls[2].key = existing[1].id
                      /\ calls[2].ok =>
                            results.company =
                                [id |-> existing[1].id, action |-> "updated"]
              /\ ~calls[2].ok => results.company = NoCompany

C2_Witness ==
    /\ ~dry_run
    /\ pc = "contacts"
    /\ Len(existing) = 2
    /\ existing[1].id # existing[2].id
    /\ calls[2].op = "update_company"
    /\ results.company.action = "updated"

\* C3: when organization resolution obtains no id (no id in the create reply
\* or in the first match, or the search, create or update request fails) the
\* sync sends no person or note request and returns results holding the error.
C3_NoIdAborts ==
    (~dry_run /\ pc = "done" /\ (company_id = None \/ Failed(OrgOps) # {})) =>
        /\ Count(PersonOps \cup NoteOps) = 0
        /\ outcome = "returned"
        /\ results.errors # <<>>

\* C4: a failed person request (search or create) is caught and recorded in
\* errors, and the remaining contacts and the notes are still processed.
C4_ContactFailureIsolated ==
    Failed(PersonOps) # {} =>
        /\ Len(results.errors) = Cardinality(Failed(PersonOps \cup NoteOps))
        /\ pc = "done" =>
              /\ outcome = "returned"
              /\ Count({"search_people"}) =
                    Cardinality({k \in DOMAIN community_data.contacts :
                                    community_data.contacts[k].email # ""})
              /\ Count(NoteOps) = Len(NotesFor(community_data))

Rank(op) == IF op \in OrgOps THEN 1 ELSE IF op \in PersonOps THEN 2 ELSE 3

\* C5: requests go out organization first, then persons, then notes, and every
\* person create and note create carries the organization id of the first step.
C5_OrgThenContactsThenNotes ==
    /\ \A i, j \in DOMAIN calls : i < j => Rank(calls[i].op) <= Rank(calls[j].op)
    /\ \A k \in DOMAIN calls :
          /\ calls[k].op = "create_person" =>
                /\ calls[k].data.companyId # None
                /\ calls[k].data.companyId = results.company.id
          /\ calls[k].op = "create_note" =>
                /\ calls[k].data.targetObjectRecordId # None
                /\ calls[k].data.targetObjectRecordId = results.company.id

C5_Witness ==
    /\ pc = "done"
    /\ outcome = "returned"
    /\ \E i, j, k \in DOMAIN calls :
          /\ calls[i].op = "update_company"
          /\ calls[j].op = "create_person"
          /\ calls[k].op = "create_note"

\* C11: a successful update of the first match leaves every field of that
\* stored record other than its address as the search found it.
C11_UpdateChangesAddressOnly ==
    \A k \in DOMAIN calls :
        (calls[k].op = "update_company" /\ calls[k].ok) =>
            LET before == existing[1]
                after == Patched(before, calls[k].data)
            IN  \A f \in DOMAIN before \ {"address"} : after[f] = before[f]

\* the six sections in their fixed order, each with its note title and source
Sections(cd) ==
    << [title |-> "One Point Team", source |-> cd.one_point_team],
       [title |-> "Client Goals", source |-> cd.goals],
       [title |-> "Market Analysis Summary", source |-> cd.market_analysis.demand_summary],
       [title |-> "Development Analysis",
        source |-> cd.development.vulnerabilities \o cd.development.opportunities
                       \o cd.development.objectives],
       [title |-> "Presentations Log", source |-> cd.presentations],
       [title |-> "Next Steps", source |-> cd.next_steps] >>

HasSource(section) == section.source # <<>>

\* the titles of the sections that have something to report, in order
DueTitles ==
    LET due == SelectSeq(Sections(community_data), HasSource)
    IN  [k \in DOMAIN due |-> due[k].title]

IsNoteCall(call) == call.op = "create_note"

NoteCalls == SelectSeq(calls, IsNoteCall)

Occurrences(x, list) == Cardinality({k \in DOMAIN list : list[k] = x})

NoteError(title) == "Failed to create note '" \o title \o "'"

\* the sync has got as far as building its notes
ReachedNotes ==
    \/ pc = "notes"
    \/ /\ pc = "done"
       /\ ~dry_run
       /\ \/ NoteCalls # <<>>
          \/ outcome = "returned" /\ company_id # None

\* C12: once the notes are built, the note creations attempted are those of
\* the non-empty sections, one each and in the fixed order, all of them by the
\* time the sync ends; a failed one is in errors once and not in
\* notes_created, a successful one in notes_created once and not in errors,
\* and no failure ends the sync.
C12_OneNotePerSection ==
    ReachedNotes =>
        LET attempted == NoteCalls
            due == DueTitles
        IN  /\ outcome # "raised"
            /\ Len(attempted) <= Len(due)
            /\ pc = "done" => Len(attempted) = Len(due)
            /\ \A k \in DOMAIN attempted :
                  /\ attempted[k].key = due[k]
                  /\ IF attempted[k].ok
                     THEN /\ Occurrences(due[k], results.notes_created) = 1
                          /\ Occurrences(NoteError(due[k]), results.errors) = 0
                     ELSE /\ Occurrences(due[k], results.notes_created) = 0
                          /\ Occurrences(NoteError(due[k]), results.errors) = 1
            /\ Len(results.notes_created) =
                  Cardinality({k \in DOMAIN attempted : attempted[k].ok})

C12_Witness ==
    /\ pc = "done"
    /\ outcome = "returned"
    /\ Len(DueTitles) \in 3 .. 5
    /\ \E i, j \in DOMAIN NoteCalls :
          /\ i < j
          /\ ~NoteCalls[i].ok
          /\ NoteCalls[j].ok
    /\ results.notes_created # <<>>

\* ====================================================================
\* pptx_parser.py: extract_presentation
\* ====================================================================
notExtract == <<syncVars, parseVars>>

\* longest --slides string
MaxRangeLen == 5

Digits == {"1", "2", "3"}

\* the characters a --slides string is made of
RangeChars == Digits \cup {"-", ","}

DigitVal(c) == IF c = "1" THEN 1 ELSE IF c = "2" THEN 2 ELSE 3

\* the presentation's slides: title shape first, then the other shapes; a shape
\* has a text frame (text, "" without one) and may hold a table (rows)
DeckSlides ==
    << [ title |-> "Reference Guide: Oak Hill Village",
         shapes |-> << [is_title |-> TRUE,  text |-> "Reference Guide: Oak Hill Village",
                        table |-> <<>>],
                       [is_title |-> FALSE, text |-> "Jane Smith CEO a@x.co",
                        table |-> <<>>] >>,
         notes |-> "" ],
       [ title |-> "Goals",
         shapes |-> << [is_title |-> TRUE,  text |-> "Goals", table |-> <<>>],
                       [is_title |-> FALSE, text |-> "Goals", table |-> <<>>],
                       [is_title |-> FALSE, text |-> "Grow occupancy", table |-> <<>>] >>,
         notes |-> "mention the waiting list" ],
       [ title |-> "",
         shapes |-> << [is_title |-> FALSE, text |-> "",
                        table |-> << <<"Phase", "Fee">>, <<"1A", "$5,000">> >>],
                       [is_title |-> FALSE, text |-> "Jan 5, 2024", table |-> <<>>] >>,
         notes |-> "" ] >>

\* lines 53-90: extract_slide(slide, slide_num)
extract_slide(slide, slide_num) ==
    LET others == SelectSeq(slide.shapes, LAMBDA sh : ~sh.is_title)
        tabled == SelectSeq(others, LAMBDA sh : sh.table # <<>>)
        texted == SelectSeq(others, LAMBDA sh : sh.text # "" /\ sh.text # slide.title)
    IN  [ number |-> slide_num,
          title |-> slide.title,
          content |-> [k \in DOMAIN texted |-> texted[k].text],
          tables |-> [k \in DOMAIN tabled |-> tabled[k].table],
          notes |-> slide.notes ]

RECURSIVE Split(_, _)
\* str.split(sep) on a sequence of characters
Split(s, sep) ==
    LET at == {k \in DOMAIN s : s[k] = sep}
    IN  IF at = {} THEN <<s>>
        ELSE LET k == CHOOSE m \in at : \A n \in at : m <= n
             IN  <<SubSeq(s, 1, k - 1)>> \o Split(SubSeq(s, k + 1, Len(s)), sep)

\* int(s) raises ValueError unless s is a non-empty run of digits
IsInt(s) == s # <<>> /\ \A k \in DOMAIN s : s[k] \in Digits

RECURSIVE ToInt(_)
\* int(s) of a run of decimal digits
ToInt(s) ==
    IF s = <<>> THEN 0
    ELSE 10 * ToInt(SubSeq(s, 1, Len(s) - 1)) + DigitVal(s[Len(s)])

\* lines 102-106: the numbers one part adds, or a ValueError
ParsePart(part) ==
    IF \E k \in DOMAIN part : part[k] = "-"
    THEN LET pieces == Split(part, "-")
         IN  IF Len(pieces) # 2 \/ ~IsInt(pieces[1]) \/ ~IsInt(pieces[2])
             THEN [error |-> TRUE, set |-> {}]
             ELSE [error |-> FALSE,
                   set |-> {n \in ToInt(pieces[1]) .. ToInt(pieces[2]) : TRUE}]
    ELSE IF ~IsInt(part)
         THEN [error |-> TRUE, set |-> {}]
         ELSE [error |-> FALSE, set |-> {ToInt(part)}]

ExtractInit ==
    /\ xpc = "start"
    /\ slide_range \in {Nothing(<<>>)} \cup {Some(t) : t \in SeqsUpTo(RangeChars, MaxRangeLen)}
    /\ prs \in {Take(DeckSlides, n) : n \in 0 .. Len(DeckSlides)}
    /\ parts = <<>>
    /\ selected_slides = Nothing({})
    /\ xi = 1
    /\ slides = <<>>
    /\ xoutcome = "running"
    /\ SyncIdle
    /\ ParseIdle

\* lines 95-100: open the file; a range that is None or "" leaves no filter
OpenPresentation ==
    /\ xpc = "start"
    /\ IF ~slide_range.none /\ slide_range.val # <<>>
       THEN /\ selected_slides' = Some({})
            /\ parts' = Split(slide_range.val, ",")
            /\ xpc' = "parse"
       ELSE /\ xpc' = "slides"
            /\ UNCHANGED <<selected_slides, parts>>
    /\ UNCHANGED <<slide_range, prs, xi, slides, xoutcome>>
    /\ UNCHANGED notExtract

\* lines 101-106: one part of the range
ParseRangePart ==
    /\ xpc = "parse"
    /\ parts # <<>>
    /\ LET parsed == ParsePart(Head(parts)) IN
       IF parsed.error
       THEN /\ xpc' = "done"
            /\ xoutcome' = "ValueError"
            /\ UNCHANGED <<selected_slides, parts>>
       ELSE /\ selected_slides' = Some(selected_slides.val \cup parsed.set)
            /\ parts' = Tail(parts)
            /\ UNCHANGED <<xpc, xoutcome>>
    /\ UNCHANGED <<slide_range, prs, xi, slides>>
    /\ UNCHANGED notExtract

\* lines 108-120: the parts are parsed; metadata, then the slides
RangeParsed ==
    /\ xpc = "parse"
    /\ parts = <<>>
    /\ xpc' = "slides"
    /\ UNCHANGED <<slide_range, prs, parts, selected_slides, xi, slides, xoutcome>>
    /\ UNCHANGED notExtract

\* line 122: if selected_slides and i not in selected_slides
Skipped(i) ==
    /\ ~selected_slides.none
    /\ selected_slides.val # {}
    /\ i \notin selected_slides.val

\* lines 121-124: one slide of enumerate(prs.slides, 1)
ExtractSlide ==
    /\ xpc = "slides"
    /\ xi <= Len(prs)
    /\ slides' = IF Skipped(xi) THEN slides ELSE Append(slides, extract_slide(prs[xi], xi))
    /\ xi' = xi + 1
    /\ UNCHANGED <<xpc, slide_range, prs, parts, selected_slides, xoutcome>>
    /\ UNCHANGED notExtract

\* lines 126-130: return the DocumentProfile
ReturnProfile ==
    /\ xpc = "slides"
    /\ xi > Len(prs)
    /\ xpc' = "done"
    /\ xoutcome' = "returned"
    /\ UNCHANGED <<slide_range, prs, parts, selected_slides, xi, slides>>
    /\ UNCHANGED notExtract

ExtractNext ==
    \/ OpenPresentation
    \/ ParseRangePart
    \/ RangeParsed
    \/ ExtractSlide
    \/ ReturnProfile

SpecExtract == ExtractInit /\ [][ExtractNext]_vars

\* --------------------------------------------------------------------
\* Properties of extract_presentation
\* --------------------------------------------------------------------
\* part reads INT-INT with the first number greater than the second
IsReversed(part) ==
    LET pieces == Split(part, "-")
    IN  /\ Len(pieces) = 2
        /\ IsInt(pieces[1])
        /\ IsInt(pieces[2])
        /\ ToInt(pieces[1]) > ToInt(pieces[2])

HasReversedRange(text) ==
    \E k \in DOMAIN Split(text, ",") : IsReversed(Split(text, ",")[k])

\* part lists slide number n: as a single, or within an inclusive range
Lists(part, n) ==
    LET pieces == Split(part, "-")
    IN  \/ Len(pieces) = 1 /\ IsInt(part) /\ ToInt(part) = n
        \/ /\ Len(pieces) = 2
           /\ IsInt(pieces[1])
           /\ IsInt(pieces[2])
           /\ ToInt(pieces[1]) <= n
           /\ n <= ToInt(pieces[2])

\* the resolved set of a filter, among the presentation's slide numbers
Resolved(text) ==
    {n \in DOMAIN prs : \E k \in DOMAIN Split(text, ",") : Lists(Split(text, ",")[k], n)}

RECURSIVE Ascending(_)
\* the numbers of a set in increasing order
Ascending(S) ==
    IF S = {} THEN <<>>
    ELSE LET least == CHOOSE m \in S : \A n \in S : m <= n
         IN  <<least>> \o Ascending(S \ {least})

\* C6: a slide filter holding a reversed range (start greater than end) is
\* rejected: extract_presentation fails and returns no DocumentProfile.
C6_ReversedRangeRejected ==
    (~slide_range.none /\ HasReversedRange(slide_range.val) /\ xpc = "done") =>
        /\ xoutcome # "returned"
        /\ slides = <<>>

\* C7: with a slide filter supplied, the returned slides are exactly the
\* presentation's slides whose number is in the resolved set, in document
\* order, each under its own number.
C7_FilterSelectsExactly ==
    (~slide_range.none /\ slide_range.val # <<>> /\ xoutcome = "returned") =>
        LET want == Ascending(Resolved(slide_range.val))
        IN  /\ Len(slides) = Len(want)
            /\ \A k \in DOMAIN want : slides[k] = extract_slide(prs[want[k]], want[k])

\* ====================================================================
\* pptx_parser.py: parse_community_data
\* ====================================================================
\* A text is a sequence of tokens, the runs of characters that single spaces
\* separate; a title is one text and a content block is one text.  The regular
\* expressions of the parser are evaluated token by token; what a pattern
\* needs to know of a token's characters is tabulated for the vocabulary.
notParse == <<syncVars, extractVars>>

\* most slides of a parsed presentation
MaxSlides == 3

RECURSIVE Join(_)
\* " ".join(tokens)
Join(ws) ==
    IF ws = <<>> THEN ""
    ELSE IF Len(ws) = 1 THEN ws[1]
    ELSE ws[1] \o " " \o Join(Tail(ws))

RECURSIVE Flatten(_)
\* the tokens of " ".join(content)
Flatten(blocks) ==
    IF blocks = <<>> THEN <<>> ELSE Head(blocks) \o Flatten(Tail(blocks))

\* ---- the vocabulary, by the character classes the patterns test
\* ^[A-Z][a-z]+$
CapWords ==
    { "Reference", "Oak", "Hill", "Village", "Goals", "One", "Point", "Team",
      "Market", "Demand", "Site", "Development", "Engagement", "Phase", "Next",
      "Steps", "Agenda", "Contact", "Jane", "Smith", "Grow", "Lead", "Sales",
      "Jan", "Feb", "Vulnerabilities", "Opportunities", "Build", "Schedule" }

\* ^[a-z]+$
LowerWords ==
    { "occupancy", "is", "strong", "aging", "stock", "new", "wing", "a", "second",
      "campus", "fee", "the", "visit", "for", "info" }

\* ^[A-Z][A-Z]+$
UpperWords == {"CEO", "MA"}

\* ^\d+$
DigitWords == {"2", "12", "2024", "01970"}

\* [A-Za-z]+ only
AlphaWords == CapWords \cup LowerWords \cup UpperWords

\* \w+ only
WordTokens == AlphaWords \cup DigitWords

\* \S+@\S+\.\S+
EmailTokens == {"a@x.co"}

\* ^[A-Z][a-z]+,$ : the capitalised word before the comma
CapCommaWords == {"Smith,", "Director,", "Salem,", "Rd,"}

BeforeComma(w) ==
    IF w = "Smith," THEN "Smith"
    ELSE IF w = "Director," THEN "Director"
    ELSE IF w = "Salem," THEN "Salem"
    ELSE "Rd"

\* ^[A-Z][a-z]+:$ : the capitalised word before the colon
CapColonWords == {"Bob:", "Amy:", "Guide:"}

BeforeColon(w) == IF w = "Bob:" THEN "Bob" ELSE IF w = "Amy:" THEN "Amy" ELSE "Guide"

\* the lower-cased trigger substrings a token holds
Triggers(w) ==
    IF w = "Goals" THEN {"goal"}
    ELSE IF w = "Team" THEN {"team"}
    ELSE IF w = "Market" THEN {"market"}
    ELSE IF w = "Demand" THEN {"demand"}
    ELSE IF w = "Site" THEN {"site"}
    ELSE IF w = "Development" THEN {"development"}
    ELSE IF w = "Engagement" THEN {"engagement"}
    ELSE IF w = "Phase" THEN {"phase"}
    ELSE IF w = "Vulnerabilities" THEN {"vulnerabilit"}
    ELSE IF w = "Opportunities" THEN {"opportunit"}
    ELSE {}

\* kw in text.lower(), for a keyword without a space
Has(text, kw) == \E k \in DOMAIN text : kw \in Triggers(text[k])

\* "next step" in title.lower()
HasNextStep(title) ==
    \E k \in DOMAIN title : k < Len(title) /\ title[k] = "Next" /\ title[k + 1] = "Steps"

\* "onepoint" in title.replace(" ", "").lower()
HasOnePoint(title) ==
    \E k \in DOMAIN title : k < Len(title) /\ title[k] = "One" /\ title[k + 1] = "Point"

\* ---- the slides a presentation is made of: title and content blocks
SlidePool ==
    { [ title |-> <<"Reference", "Guide:", "Oak", "Hill", "Village">>,
        content |-> << <<"Jane", "Smith", "CEO", "a@x.co">> >> ],
      [ title |-> <<"Goals">>,
        content |-> << <<"Grow", "occupancy">>, <<"Jane", "Smith", "a@x.co">> >> ],
      [ title |-> <<"One", "Point", "Team">>,
        content |-> << <<"Bob:", "Lead", "Amy:", "Sales">> >> ],
      [ title |-> <<"Market", "Demand">>,
        content |-> << <<"Demand", "is", "strong", "Jan", "5,", "2024">> >> ],
      [ title |-> <<"Site", "Development">>,
        content |-> << <<"Vulnerabilities", "aging", "stock">>,
                       <<"Opportunities", "new", "wing">>,
                       <<"Build", "a", "second", "campus">> >> ],
      [ title |-> <<"Engagement", "Phase">>,
        content |-> << <<"Phase", "2", "fee", "$5,000">> >> ],
      [ title |-> <<"Next", "Steps">>,
        content |-> << <<"Schedule", "the", "visit", "Jan", "5,", "2024">>,
                       <<"Feb", "6,", "2024">> >> ],
      [ title |-> <<"Agenda">>,
        content |-> << <<"12", "Oak", "Rd,", "Salem,", "MA", "01970">>,
                       <<"a@x.co", "a@x.co">> >> ],
      [ title |-> <<"Contact">>,
        content |-> << <<"Contact", "Jane", "Smith,", "Director,", "a@x.co",
                         "for", "info">> >> ],
      [ title |-> <<>>, content |-> <<>> ] }

\* slide numbers: the first slide's number and the step to the next
FirstNumbers == {1, 2}
NumberSteps == {1, 2}

\* the presentations handed to the parser: slides in document order
Documents ==
    { [ slides |-> [k \in DOMAIN picks |->
                      [ number |-> first + (k - 1) * step,
                        title |-> picks[k].title,
                        content |-> picks[k].content ]] ] :
        picks \in SeqsUpTo(SlidePool, MaxSlides),
        first \in FirstNumbers, step \in NumberSteps }

\* community = {...}  (lines 138-162)
EmptyCommunity ==
    [ name |-> "",
      address |-> "",
      contacts |-> <<>>,
      one_point_team |-> <<>>,
      goals |-> <<>>,
      engagement |-> [phase |-> "", start_date |-> "", fee |-> "", timeline |-> <<>>],
      market_analysis |-> [pma_description |-> "", demographics |-> <<>>,
                           demand_summary |-> <<>>],
      development |-> [objectives |-> <<>>, vulnerabilities |-> <<>>,
                       opportunities |-> <<>>],
      presentations |-> <<>>,
      next_steps |-> <<>> ]

\* the least number of a non-empty set
Least(S) == CHOOSE m \in S : \A n \in S : m <= n

\* the greatest number of a non-empty set
Greatest(S) == CHOOSE m \in S : \A n \in S : n <= m

\* ---- rule 1, lines 174-179: the community name
\* (?:Village|Community|Center|Home|Living)
NameKeywords == {"Village", "Community", "Center", "Home", "Living"}

\* ([A-Z][A-Za-z\s\-]+(?:Village|...)) tried at token i: a capital, a run of
\* letters and spaces, ending at the last keyword the run reaches
GroupFrom(text, i) ==
    IF i \notin DOMAIN text \/ text[i] \notin (CapWords \cup UpperWords) THEN ""
    ELSE LET run == Greatest({m \in i .. Len(text) :
                                 \A n \in i .. m : text[n] \in AlphaWords})
             ends == {k \in (i + 1) .. run : text[k] \in NameKeywords}
         IN  IF ends = {} THEN "" ELSE Join(SubSeq(text, i, Greatest(ends)))

\* re.search of line 176 over title + " " + content_text: the leftmost match,
\* with the optional "Reference Guide:" prefix tried first
NameMatch(text) ==
    LET Hit(i) ==
            IF /\ i + 1 <= Len(text)
               /\ text[i] = "Reference"
               /\ text[i + 1] = "Guide:"
               /\ GroupFrom(text, i + 2) # ""
            THEN GroupFrom(text, i + 2)
            ELSE GroupFrom(text, i)
        at == {i \in DOMAIN text : Hit(i) # ""}
    IN  IF at = {} THEN "" ELSE Hit(Least(at))

\* ---- rule 2, lines 181-194: contacts
\* re.findall(r'(\S+@\S+\.\S+)', content_text)
Emails(text) == SelectSeq(text, LAMBDA w : w \in EmailTokens)

\* the capitalised word a token starts with, when [,\s]+ may follow it
CapHead(w) ==
    IF w \in CapWords THEN w ELSE IF w \in CapCommaWords THEN BeforeComma(w) ELSE ""

\* line 185: two capitalised words, separators, at most one \w+ word, the email
NameBefore(text, email) ==
    LET Fits(i) ==
            /\ i + 2 <= Len(text)
            /\ text[i] \in CapWords
            /\ CapHead(text[i + 1]) # ""
            /\ \/ text[i + 2] = email
               \/ /\ i + 3 <= Len(text)
                  /\ text[i + 2] \in WordTokens
                  /\ text[i + 3] = email
        at == {i \in DOMAIN text : Fits(i)}
    IN  IF at = {} THEN ""
        ELSE text[Least(at)] \o " " \o CapHead(text[Least(at) + 1])

\* ([A-Z][A-Z]+|CEO|CFO|COO|President|Director) at the end of a token
TitleTail(w) ==
    IF w \in UpperWords THEN w ELSE IF w = "Director," THEN "Director" ELSE ""

\* line 190: a title, separators, the email
TitleBefore(text, email) ==
    LET at == {i \in DOMAIN text :
                  i + 1 <= Len(text) /\ TitleTail(text[i]) # "" /\ text[i + 1] = email}
    IN  IF at = {} THEN "" ELSE TitleTail(text[Least(at)])

\* lines 186-192: the contact dict, with the keys that were captured
Contact(text, email) ==
    LET name == NameBefore(text, email)
        title == TitleBefore(text, email)
    IN  IF name # "" /\ title # ""
        THEN [email |-> email, name |-> name, title |-> title]
        ELSE IF name # "" THEN [email |-> email, name |-> name]
        ELSE IF title # "" THEN [email |-> email, title |-> title]
        ELSE [email |-> email]

InSeq(x, list) == \E k \in DOMAIN list : list[k] = x

\* AddContact treating an equal email as a duplicate
AddContactByEmail(contacts, contact) ==
    IF \E k \in DOMAIN contacts : contacts[k].email = contact.email
    THEN contacts
    ELSE Append(contacts, contact)

\* AddContact putting the new record first
AddContactFirst(contacts, contact) ==
    IF InSeq(contact, contacts) THEN contacts ELSE <<contact>> \o contacts

\* lines 193-194: if contact not in community["contacts"]: append
AddContact(contacts, contact) ==
    IF InSeq(contact, contacts) THEN contacts ELSE Append(contacts, contact)

RECURSIVE AddContacts(_, _, _)
\* lines 183-194: the loop over the emails found
AddContacts(contacts, emails, text) ==
    IF emails = <<>> THEN contacts
    ELSE AddContacts(AddContact(contacts, Contact(text, Head(emails))),
                     Tail(emails), text)

\* ---- rule 3, lines 196-201: the One Point team
RECURSIVE RolesFrom(_, _)
\* re.findall of line 199 from token i on: Name: then a role of letters and
\* spaces, up to the next Name: or the end of the text
RolesFrom(text, i) ==
    IF i > Len(text) THEN <<>>
    ELSE IF text[i] \notin CapColonWords THEN RolesFrom(text, i + 1)
    ELSE LET stop == Least({k \in (i + 1) .. (Len(text) + 1) :
                               k = Len(text) + 1 \/ text[k] \notin AlphaWords})
             found == \/ stop = Len(text) + 1 /\ stop > i + 1
                      \/ stop <= Len(text) /\ text[stop] \in CapColonWords
         IN  IF found
             THEN <<[name |-> BeforeColon(text[i]),
                     role |-> Join(SubSeq(text, i + 1, stop - 1))]>>
                  \o RolesFrom(text, stop)
             ELSE RolesFrom(text, i + 1)

\* ---- rules 4, 6, 7, 9: blocks kept by length
\* len(item) > 10  (line 206)
GoalMinLen == 10
\* len(item) > 20  (line 223)
DemandMinLen == 20
\* len(item) > 15  (line 233)
ObjectiveMinLen == 15
\* len(item) > 10  (line 245)
NextStepMinLen == 10

\* the blocks of content longer than n characters, as text
LongerThan(content, n) ==
    LET kept == SelectSeq(content, LAMBDA b : Len(Join(b)) > n)
    IN  [k \in DOMAIN kept |-> Join(kept[k])]

\* lines 228-234: each block lands in exactly one bucket, or in none
Bucket(block) ==
    IF Has(block, "vulnerabilit") THEN "vulnerabilities"
    ELSE IF Has(block, "opportunit") THEN "opportunities"
    ELSE IF Len(Join(block)) > ObjectiveMinLen THEN "objectives"
    ELSE "none"

InBucket(content, bucket) ==
    LET kept == SelectSeq(content, LAMBDA b : Bucket(b) = bucket)
    IN  [k \in DOMAIN kept |-> Join(kept[k])]

\* ---- rule 5, lines 209-218: engagement
\* \$[\d,]+
FeeTokens == {"$5,000"}

\* re.search(r'\$[\d,]+', content_text)
FeeMatch(text) ==
    LET at == {i \in DOMAIN text : text[i] \in FeeTokens}
    IN  IF at = {} THEN "" ELSE text[Least(at)]

\* tokens that start with a digit, A or B
DigitABStart == DigitWords \cup {"5,", "6,", "Amy:", "Agenda", "Bob:", "Build"}

\* the part of a token before its first "."
BeforeDot(w) == "a@x"

\* re.search(r'Phase\s*[\dAB]+[^.]*', content_text): up to the first "."
PhaseMatch(text) ==
    LET at == {i \in DOMAIN text :
                  i + 1 <= Len(text) /\ text[i] = "Phase" /\ text[i + 1] \in DigitABStart}
    IN  IF at = {} THEN ""
        ELSE LET i == Least(at)
                 dots == {k \in i .. Len(text) : text[k] \in EmailTokens}
             IN  IF dots = {} THEN Join(SubSeq(text, i, Len(text)))
                 ELSE Join(SubSeq(text, i, Least(dots) - 1)) \o " "
                      \o BeforeDot(text[Least(dots)])

\* ---- rule 8, lines 236-240: presentation dates
\* tokens ending in (?:Jan|Feb|...|Dec)[a-z]*\.?
MonthWords == {"Jan", "Feb", "Jane", "Market"}

\* \d{1,2},?
DayTokens == {"5,", "6,", "2", "12"}

\* the \d{4} a token starts with
YearHead(w) == IF w = "2024" THEN "2024" ELSE IF w = "01970" THEN "0197" ELSE ""

RECURSIVE DatesFrom(_, _)
\* re.findall of line 237 from token i on
DatesFrom(text, i) ==
    IF i + 2 > Len(text) THEN <<>>
    ELSE IF /\ text[i] \in MonthWords
            /\ text[i + 1] \in DayTokens
            /\ YearHead(text[i + 2]) # ""
         THEN <<text[i] \o " " \o text[i + 1] \o " " \o YearHead(text[i + 2])>>
              \o DatesFrom(text, i + 3)
         ELSE DatesFrom(text, i + 1)

\* AddDate moving a listed date to the slide that repeats it
AddDateLatest(presentations, date, number) ==
    IF \E k \in DOMAIN presentations : presentations[k].date = date
    THEN [k \in DOMAIN presentations |->
            IF presentations[k].date = date
            THEN [date |-> date, slide |-> number]
            ELSE presentations[k]]
    ELSE Append(presentations, [date |-> date, slide |-> number])

\* lines 239-240: a date not yet listed is appended with the slide's number
AddDate(presentations, date, number) ==
    IF \E k \in DOMAIN presentations : presentations[k].date = date
    THEN presentations
    ELSE Append(presentations, [date |-> date, slide |-> number])

RECURSIVE AddDates(_, _, _)
\* lines 238-240: the loop over the dates found
AddDates(presentations, dates, number) ==
    IF dates = <<>> THEN presentations
    ELSE AddDates(AddDate(presentations, Head(dates), number), Tail(dates), number)

\* ---- rule 10, lines 248-251: the address
\* the \d+ a token ends with
DigitsTail(w) == IF w \in DigitWords THEN w ELSE IF w = "$5,000" THEN "000" ELSE ""

\* tokens that hold Rd|Road|St|Street|Ave|Avenue|Dr|Drive|Ln|Lane|Way|Blvd,
\* after letters only
StreetTokens == {"Rd,", "Steps"}

\* tokens that hold a comma
CommaTokens == CapCommaWords \cup {"5,", "6,", "$5,000"}

\* the \d{5} a token starts with
ZipHead(w) == IF w = "01970" THEN "01970" ELSE ""

\* all_text: the tokens seen, the white space before each (gaps) and the white
\* space after the last one (tail)
EmptyText == [tokens |-> <<>>, gaps |-> <<>>, tail |-> ""]

\* lines 166-167: all_text += f"{title} {' '.join(content)}" + "\n"
AddSlideText(text, slide) ==
    LET added == slide.title \o Flatten(slide.content)
    IN  IF added = <<>> THEN [text EXCEPT !.tail = @ \o " \n"]
        ELSE [ tokens |-> text.tokens \o added,
               gaps |-> text.gaps
                        \o [k \in DOMAIN added |->
                              IF k > 1 THEN " "
                              ELSE text.tail \o (IF slide.title = <<>> THEN " " ELSE "")],
               tail |-> (IF slide.content = <<>> THEN " " ELSE "") \o "\n" ]

RECURSIVE Span(_, _, _)
\* the characters from token i to token j of a text
Span(text, i, j) ==
    IF i = j THEN text.tokens[i]
    ELSE Span(text, i, j - 1) \o text.gaps[j] \o text.tokens[j]

\* the pattern of line 249 tried at token i: number, letters, street suffix,
\* anything up to a comma, letters up to a comma, two capitals, five digits
AddressFrom(text, i) ==
    LET n == Len(text.tokens)
        tok == text.tokens
        run == Greatest({m \in i .. n : \A k \in (i + 1) .. m : tok[k] \in AlphaWords})
        streets == {k \in (i + 1) .. Min(run + 1, n) :
                       /\ tok[k] \in StreetTokens
                       /\ k > i + 1 \/ Len(text.gaps[k]) > 1}
    IN  IF DigitsTail(tok[i]) = "" \/ streets = {} THEN ""
        ELSE LET commas == {c \in Least(streets) .. n : tok[c] \in CommaTokens}
             IN  IF commas = {} \/ tok[Least(commas)] = "$5,000" THEN ""
                 ELSE LET breaks == {d \in (Least(commas) + 1) .. n :
                                        tok[d] \notin AlphaWords}
                      IN  IF breaks = {} THEN ""
                          ELSE LET d == Least(breaks)
                               IN  IF /\ tok[d] \in CapCommaWords
                                      /\ d + 2 <= n
                                      /\ tok[d + 1] \in UpperWords
                                      /\ Len(tok[d + 1]) = 2
                                      /\ ZipHead(tok[d + 2]) # ""
                                   THEN DigitsTail(tok[i]) \o text.gaps[i + 1]
                                        \o Span(text, i + 1, d + 1) \o text.gaps[d + 2]
                                        \o ZipHead(tok[d + 2])
                                   ELSE ""

\* re.search of line 249 over all_text: the leftmost match
AddressMatch(text) ==
    LET at == {i \in DOMAIN text.tokens : AddressFrom(text, i) # ""}
    IN  IF at = {} THEN "" ELSE AddressFrom(text, Least(at))

\* ---- lines 165-246: the loop body, rule after rule
AfterSlide(c, slide) ==
    LET title == slide.title
        content == slide.content
        content_text == Flatten(content)
        name == IF slide.number = 1 THEN NameMatch(title \o content_text) ELSE ""
        isTeam == HasOnePoint(title) \/ Has(title, "team")
        isEngagement == Has(title, "engagement") \/ Has(title, "phase")
        isMarket == Has(title, "market") \/ Has(title, "demand")
        isDevelopment == Has(title, "development") \/ Has(title, "objective")
                            \/ Has(title, "site")
        fee == IF isEngagement THEN FeeMatch(content_text) ELSE ""
        phase == IF isEngagement THEN PhaseMatch(content_text) ELSE ""
    IN  [ c EXCEPT
            !.name = IF name # "" THEN name ELSE @,
            !.contacts = AddContacts(@, Emails(content_text), content_text),
            !.one_point_team = IF isTeam THEN @ \o RolesFrom(content_text, 1) ELSE @,
            !.goals = IF Has(title, "goal") THEN @ \o LongerThan(content, GoalMinLen) ELSE @,
            !.engagement.fee = IF fee # "" THEN fee ELSE @,
            !.engagement.phase = IF phase # "" THEN phase ELSE @,
            !.market_analysis.demand_summary =
                IF isMarket THEN @ \o LongerThan(content, DemandMinLen) ELSE @,
            !.development.vulnerabilities =
                IF isDevelopment THEN @ \o InBucket(content, "vulnerabilities") ELSE @,
            !.development.opportunities =
                IF isDevelopment THEN @ \o InBucket(content, "opportunities") ELSE @,
            !.development.objectives =
                IF isDevelopment THEN @ \o InBucket(content, "objectives") ELSE @,
            !.presentations = AddDates(@, DatesFrom(content_text, 1), slide.number),
            !.next_steps =
                IF HasNextStep(title) THEN @ \o LongerThan(content, NextStepMinLen) ELSE @ ]

ParseInit ==
    /\ ppc = "slides"
    /\ data \in Documents
    /\ community = EmptyCommunity
    /\ all_text = EmptyText
    /\ pi = 1
    /\ SyncIdle
    /\ ExtractIdle

\* lines 165-246: one slide of data["slides"]
ParseSlide ==
    /\ ppc = "slides"
    /\ pi <= Len(data.slides)
    /\ all_text' = AddSlideText(all_text, data.slides[pi])
    /\ community' = AfterSlide(community, data.slides[pi])
    /\ pi' = pi + 1
    /\ UNCHANGED <<ppc, data>>
    /\ UNCHANGED notParse

\* lines 248-253: the address, then return community
ReturnCommunity ==
    /\ ppc = "slides"
    /\ pi > Len(data.slides)
    /\ community' = IF AddressMatch(all_text) # ""
                    THEN [community EXCEPT !.address = AddressMatch(all_text)]
                    ELSE community
    /\ ppc' = "done"
    /\ UNCHANGED <<data, all_text, pi>>
    /\ UNCHANGED notParse

ParseNext ==
    \/ ParseSlide
    \/ ReturnCommunity

SpecParse == ParseInit /\ [][ParseNext]_vars

\* --------------------------------------------------------------------
\* Properties of parse_community_data
\* --------------------------------------------------------------------
\* the slides the loop has processed
Processed == 1 .. (pi - 1)

\* the tokens of " ".join(content) of slide m
ContentOf(m) == Flatten(data.slides[m].content)

\* the contact records captured on slide m, one per email occurrence
Captures(m) ==
    LET found == Emails(ContentOf(m))
    IN  [k \in DOMAIN found |-> Contact(ContentOf(m), found[k])]

\* C8: contacts never holds two equal records, and every capture is kept:
\* a capture of an email already listed under another name or title is a
\* separate entry.
C8_DedupByWholeRecord ==
    ppc # "idle" =>
        /\ \A i, j \in DOMAIN community.contacts :
              i # j => community.contacts[i] # community.contacts[j]
        /\ \A m \in Processed : \A k \in DOMAIN Captures(m) :
              InSeq(Captures(m)[k], community.contacts)

C8_Witness ==
    /\ ppc = "done"
    /\ \E i, j \in DOMAIN community.contacts :
          /\ i # j
          /\ community.contacts[i].email = community.contacts[j].email
    /\ \E m, n \in Processed :
          /\ m < n
          /\ \E k \in DOMAIN Captures(m) : \E l \in DOMAIN Captures(n) :
                Captures(m)[k] = Captures(n)[l]

IsPrefix(s, t) == Len(s) <= Len(t) /\ SubSeq(t, 1, Len(s)) = s

\* C9: every sequence field of the profile only grows at its end: its value
\* after a step extends its value before the step.
C9_AppendOnly ==
    [][ppc = "slides" =>
          /\ IsPrefix(community.contacts, community'.contacts)
          /\ IsPrefix(community.one_point_team, community'.one_point_team)
          /\ IsPrefix(community.goals, community'.goals)
          /\ IsPrefix(community.market_analysis.demand_summary,
                      community'.market_analysis.demand_summary)
          /\ IsPrefix(community.development.objectives,
                      community'.development.objectives)
          /\ IsPrefix(community.development.vulnerabilities,
                      community'.development.vulnerabilities)
          /\ IsPrefix(community.development.opportunities,
                      community'.development.opportunities)
          /\ IsPrefix(community.presentations, community'.presentations)
          /\ IsPrefix(community.next_steps, community'.next_steps)]_vars

C9_Witness ==
    /\ ppc = "done"
    /\ pi > 3
    /\ Len(community.contacts) >= 2
    /\ Len(community.presentations) >= 2
    /\ Len(community.goals) >= 2
    /\ Len(community.next_steps) >= 2

\* the dates found in the content of slide m
DatesOf(m) == DatesFrom(ContentOf(m), 1)

\* the processed slides whose content holds the date
SlidesWith(date) == {m \in Processed : InSeq(date, DatesOf(m))}

\* C10: presentations lists each date once, under the number of the first
\* slide whose content held it; a later slide repeating the date changes nothing.
C10_FirstSlidePerDate ==
    ppc # "idle" =>
        /\ \A i, j \in DOMAIN community.presentations :
              i # j => community.presentations[i].date # community.presentations[j].date
        /\ \A k \in DOMAIN community.presentations :
              LET entry == community.presentations[k]
              IN  /\ SlidesWith(entry.date) # {}
                  /\ entry.slide = data.slides[Least(SlidesWith(entry.date))].number
        /\ \A m \in Processed : \A k \in DOMAIN DatesOf(m) :
              \E n \in DOMAIN community.presentations :
                  community.presentations[n].date = DatesOf(m)[k]

C10_Witness ==
    /\ ppc = "done"
    /\ \E k \in DOMAIN community.presentations :
          /\ Cardinality(SlidesWith(community.presentations[k].date)) >= 2
          /\ community.presentations[k].slide = 2
    /\ Len(community.presentations) = 2

====
